---------------------------- MODULE Spec2Model ----------------------------
(***************************************************************************)
(* A model of job_module.py: the pipeline                                  *)
(*   load_data -> preprocess_data -> create_database -> run_sql_queries    *)
(* and split_table_by_column_sql, over pandas tables and an SQLite store.  *)
(*                                                                         *)
(* Values.  A cell of a pandas table, a Python value or an SQLite value is *)
(* a record of one shape, [k, n, d, s]:                                    *)
(*   k = "str"    a text, s its characters (a sequence of 1-char strings)  *)
(*   k = "int"    the integer n                                            *)
(*   k = "float"  the floating-point number n/d, kept as a reduced         *)
(*                fraction (rounding of binary floats is not modelled)     *)
(*   k = "nan"    pandas' missing value NaN                                *)
(*   k = "none"   Python's None                                            *)
(*   k = "null"   SQLite's NULL                                            *)
(* Column names are taken to be plain SQL identifiers.                     *)
(***************************************************************************)
EXTENDS Integers, Sequences, FiniteSets, TLC

VARIABLES
    pc,      \* position of the caller: which function runs next
    file,    \* what is at file_path: NoFile or the table read_csv parses
    df,      \* the in-memory table passed from stage to stage
    db,      \* the store: NoTable or the jobs relation
    out,     \* the output artifact out_file: NoArtifact or its blocks
    err,     \* the exception that ended the run, or NoError
    tables,  \* what split_table_by_column_sql returned
    runs,    \* what each completed pipeline run left: store shape and artifact
    arg,     \* argument of the function under test
    ret      \* its return value

vars == <<pc, file, df, db, out, err, tables, runs, arg, ret>>

-----------------------------------------------------------------------------
(* Bounds of the model *)

MaxLen == 4
MaxPruneRows == 10
MaxPruneCols == 3
MaxRows == 2
MaxQueryRows == 6

-----------------------------------------------------------------------------
(* Values *)

StrV(chars) == [k |-> "str", n |-> 0, d |-> 1, s |-> chars]
IntV(i) == [k |-> "int", n |-> i, d |-> 1, s |-> <<>>]
NaN == [k |-> "nan", n |-> 0, d |-> 1, s |-> <<>>]
None == [k |-> "none", n |-> 0, d |-> 1, s |-> <<>>]
NULL == [k |-> "null", n |-> 0, d |-> 1, s |-> <<>>]

RECURSIVE Gcd(_, _)
Gcd(a, b) == IF b = 0 THEN a ELSE Gcd(b, a % b)

\* the float n/d, d > 0, n >= 0
FloatV(n, d) ==
    LET g == Gcd(n, d)
    IN  [k |-> "float", n |-> n \div g, d |-> d \div g, s |-> <<>>]

\* pd.isna: NaN and None are missing
isna(v) == v.k \in {"nan", "none"}

\* isinstance(s, str)
isinstance_str(v) == v.k = "str"

Digits == {"0", "1", "2", "3", "4", "5", "6", "7", "8", "9"}

DigitVal(c) ==
    CASE c = "0" -> 0 [] c = "1" -> 1 [] c = "2" -> 2 [] c = "3" -> 3
      [] c = "4" -> 4 [] c = "5" -> 5 [] c = "6" -> 6 [] c = "7" -> 7
      [] c = "8" -> 8 [] c = "9" -> 9

-----------------------------------------------------------------------------
(* clean_salary, lines 22-32 *)

\* the pattern \d+ in place of \d[\d,]*: a comma ends the match
RECURSIVE MatchEnd_digits_only(_, _)
MatchEnd_digits_only(s, j) ==
    IF j <= Len(s) /\ s[j] \in Digits
    THEN MatchEnd_digits_only(s, j + 1)
    ELSE j

\* the end (exclusive) of the match of [\d,]* that starts at position j
RECURSIVE MatchEnd(_, _)
MatchEnd(s, j) ==
    IF j <= Len(s) /\ (s[j] \in Digits \/ s[j] = ",")
    THEN MatchEnd(s, j + 1)
    ELSE j

\* re.findall(r'\d[\d,]*', s) from position i on: the matches, left to
\* right, each greedy, the scan resuming after the end of a match
RECURSIVE findall(_, _)
findall(s, i) ==
    IF i > Len(s) THEN <<>>
    ELSE IF s[i] \in Digits
         THEN LET j == MatchEnd(s, i + 1)
              IN  <<SubSeq(s, i, j - 1)>> \o findall(s, j)
         ELSE findall(s, i + 1)

\* n.replace(",", "")
replace_commas(n) == SelectSeq(n, LAMBDA c : c # ",")

\* int(t) of a text t: its decimal value; ValueError when t is empty or holds
\* a character that is no digit
int_fails(t) == t = <<>> \/ \E i \in 1..Len(t) : t[i] \notin Digits

RECURSIVE int(_)
int(t) == IF t = <<>> THEN 0 ELSE 10 * int(SubSeq(t, 1, Len(t) - 1)) + DigitVal(t[Len(t)])

RECURSIVE sum(_)
sum(nums) == IF nums = <<>> THEN 0 ELSE nums[1] + sum(Tail(nums))

clean_salary(s) ==
    IF isna(s) \/ ~isinstance_str(s) THEN None
    ELSE LET numbers == findall(s.s, 1)
         IN  IF numbers = <<>> THEN None
             ELSE IF \E i \in 1..Len(numbers) : int_fails(replace_commas(numbers[i]))
                  THEN None
                  ELSE LET ints == [i \in 1..Len(numbers) |-> int(replace_commas(numbers[i]))]
                       IN  FloatV(sum(ints), Len(ints))

-----------------------------------------------------------------------------
(* Tables.  A table read from the file is [columns, n, data]: the column   *)
(* names in order, the row count, and per column its n cells.  A pandas    *)
(* DataFrame adds dtype, the dtype of each column.                         *)

Range(seq) == {seq[i] : i \in 1..Len(seq)}

\* pd.read_csv's dtype of a column from its parsed cells: integers only give
\* int64; numbers with a missing cell or a fraction give float64; a column
\* with no cell present gives float64; texts give object.  (The files of
\* this model never mix numbers and texts in one column.)
csv_dtype(cells) ==
    IF cells # <<>> /\ \A i \in 1..Len(cells) : cells[i].k = "int" THEN "int64"
    ELSE IF \A i \in 1..Len(cells) : cells[i].k \in {"int", "float", "nan"} THEN "float64"
    ELSE "object"

\* the cell as the column of that dtype holds it: float64 holds an integer as
\* the float of the same value
csv_cell(dtype, v) == IF dtype = "float64" /\ v.k = "int" THEN FloatV(v.n, 1) ELSE v

read_csv(f) ==
    [columns |-> f.columns,
     n |-> f.n,
     dtype |-> [c \in Range(f.columns) |-> csv_dtype(f.data[c])],
     data |-> [c \in Range(f.columns) |->
                 [i \in 1..f.n |-> csv_cell(csv_dtype(f.data[c]), f.data[c][i])]]]

\* df[cols]: the table restricted to the columns cols, in that order
select_columns(d, cols) ==
    [columns |-> cols,
     n |-> d.n,
     dtype |-> [c \in Range(cols) |-> d.dtype[c]],
     data |-> [c \in Range(cols) |-> d.data[c]]]

\* df[col].isna().sum()
RECURSIVE isna_sum(_)
isna_sum(cells) ==
    IF cells = <<>> THEN 0
    ELSE (IF isna(cells[1]) THEN 1 ELSE 0) + isna_sum(Tail(cells))

\* .any() in place of .all()
isna_any(cells) == \E i \in 1..Len(cells) : isna(cells[i])

\* df[col].isna().all()
isna_all(cells) == \A i \in 1..Len(cells) : isna(cells[i])

-----------------------------------------------------------------------------
(* preprocess_data, the pruning step, lines 36-41 *)

\* threshold = 0.9, as the fraction ThresholdNum / ThresholdDen
ThresholdNum == 9
ThresholdDen == 10

\* the comparison >= in place of >
above_threshold_or_equal(count, n_rows) == count * ThresholdDen >= ThresholdNum * n_rows

\* the threshold taken as a percentage: count / n_rows > 90
above_threshold_percent(count, n_rows) == count * ThresholdDen > 100 * ThresholdNum * n_rows

\* count / n_rows > threshold
above_threshold(count, n_rows) == count * ThresholdDen > ThresholdNum * n_rows

\* to_drop, as the test of one column
in_to_drop(d, col) == above_threshold(isna_sum(d.data[col]), d.n)

\* df.drop(columns=to_drop): the other columns, in their order
drop_sparse_columns(d) ==
    select_columns(d, SelectSeq(d.columns, LAMBDA col : ~in_to_drop(d, col)))

-----------------------------------------------------------------------------
(* preprocess_data, lines 34-53 *)

NoError == [type |-> "NoError", msg |-> "", columns |-> <<>>]

\* an exception: its Python type, what its message says, and the column
\* names the message lists
Error(type, msg, columns) == [type |-> type, msg |-> msg, columns |-> columns]

NoFrame == [columns |-> <<>>, n |-> 0, dtype |-> <<>>, data |-> <<>>]

required_columns == <<"salary", "seniority_level", "location">>

\* only the first absent column is reported
missing_required_first_only(d) ==
    LET absent == SelectSeq(required_columns, LAMBDA col : col \notin Range(d.columns))
    IN  IF absent = <<>> THEN <<>> ELSE <<absent[1]>>

\* missing = [col for col in required_columns if col not in df.columns]
missing_required(d) == SelectSeq(required_columns, LAMBDA col : col \notin Range(d.columns))

\* Series.apply(clean_salary) as the new column holds it: a float64 column
\* keeps None as NaN; when no result is a number the column is object and
\* keeps None
apply_clean_salary(cells) ==
    LET results == [i \in 1..Len(cells) |-> clean_salary(cells[i])]
    IN  IF \A i \in 1..Len(results) : results[i] = None
        THEN [dtype |-> "object", cells |-> results]
        ELSE [dtype |-> "float64",
              cells |-> [i \in 1..Len(results) |->
                           IF results[i] = None THEN NaN ELSE results[i]]]

\* df[name] = cells: a new column goes last, an existing one is replaced in place
set_column(d, name, dtype, cells) ==
    [columns |-> IF name \in Range(d.columns) THEN d.columns ELSE Append(d.columns, name),
     n |-> d.n,
     dtype |-> [c \in Range(d.columns) \cup {name} |-> IF c = name THEN dtype ELSE d.dtype[c]],
     data |-> [c \in Range(d.columns) \cup {name} |-> IF c = name THEN cells ELSE d.data[c]]]

Whitespace == {" ", "\t", "\n"}

\* str.strip()
RECURSIVE lstrip(_)
lstrip(s) == IF s # <<>> /\ s[1] \in Whitespace THEN lstrip(Tail(s)) ELSE s

RECURSIVE rstrip(_)
rstrip(s) ==
    IF s # <<>> /\ s[Len(s)] \in Whitespace THEN rstrip(SubSeq(s, 1, Len(s) - 1)) ELSE s

strip(s) == rstrip(lstrip(s))

UpperLetters ==
    <<"A", "B", "C", "D", "E", "F", "G", "H", "I", "J", "K", "L", "M",
      "N", "O", "P", "Q", "R", "S", "T", "U", "V", "W", "X", "Y", "Z">>

LowerLetters ==
    <<"a", "b", "c", "d", "e", "f", "g", "h", "i", "j", "k", "l", "m",
      "n", "o", "p", "q", "r", "s", "t", "u", "v", "w", "x", "y", "z">>

\* str.lower()
lower(s) ==
    [i \in 1..Len(s) |->
        IF s[i] \in Range(UpperLetters)
        THEN LowerLetters[CHOOSE j \in 1..26 : UpperLetters[j] = s[i]]
        ELSE s[i]]

\* .str.strip().str.lower() of one cell: a missing cell stays missing
normalize_seniority(v) == IF v.k = "str" THEN StrV(lower(strip(v.s))) ELSE v

\* the result of preprocess_data(df): the exception it raises, or the table
\* it returns
preprocess_data(d) ==
    LET pruned == drop_sparse_columns(d)
        missing == missing_required(pruned)
    IN  IF missing # <<>>
        THEN [err |-> Error("KeyError", "required columns absent", missing), df |-> d]
        ELSE
        LET cs == apply_clean_salary(pruned.data["salary"])
            with_salary == set_column(pruned, "clean_salary", cs.dtype, cs.cells)
        IN  IF isna_all(cs.cells)
            THEN [err |-> Error("ValueError", "all salaries empty after cleaning", <<>>),
                  df |-> d]
            ELSE IF with_salary.dtype["seniority_level"] # "object"
            THEN \* the .str accessor takes text columns only
                 [err |-> Error("AttributeError", ".str accessor on a column that is not text",
                                <<>>),
                  df |-> d]
            ELSE [err |-> NoError,
                  df |-> set_column(with_salary, "seniority_level", "category",
                            [i \in 1..with_salary.n |->
                               normalize_seniority(with_salary.data["seniority_level"][i])])]

-----------------------------------------------------------------------------
(* create_database, lines 58-83 *)

NoTable == [exists |-> FALSE, columns |-> <<>>, types |-> <<>>, rows |-> <<>>]

\* the statement is left out: an existing relation stays
keep_table(store) == store

\* DROP TABLE IF EXISTS jobs
drop_table_if_exists(store) == NoTable

\* the two numeric branches exchanged
column_type_swapped(dtype) ==
    IF dtype = "int64" THEN "REAL"
    ELSE IF dtype = "float64" THEN "INTEGER"
    ELSE "TEXT"

\* the column type of a dtype, lines 69-74
column_type(dtype) ==
    IF dtype = "int64" THEN "INTEGER"
    ELSE IF dtype = "float64" THEN "REAL"
    ELSE "TEXT"

\* sqlite3 binds NaN and None as NULL and every other value as it is
bind(v) == IF isna(v) THEN NULL ELSE v

\* the rows are inserted last row first
insert_rows_reversed(store, d) ==
    [store EXCEPT !.rows =
        store.rows \o [i \in 1..d.n |-> [c \in Range(d.columns) |-> bind(d.data[c][d.n + 1 - i])]]]

\* the INSERT of every row of df, in the order of df.iterrows()
insert_rows(store, d) ==
    [store EXCEPT !.rows =
        store.rows \o [i \in 1..d.n |-> [c \in Range(d.columns) |-> bind(d.data[c][i])]]]

\* the result of create_database(db_name, df): the exception it raises, or
\* the store it leaves
create_database(store, d) ==
    LET d1 == IF "salary" \in Range(d.columns) /\ isna_all(d.data["salary"])
              THEN select_columns(d, SelectSeq(d.columns, LAMBDA c : c # "salary"))
              ELSE d
        dropped == drop_table_if_exists(store)
    IN  IF dropped.exists
        THEN [err |-> Error("OperationalError", "table jobs already exists", <<>>),
              db |-> dropped]
        ELSE [err |-> NoError,
              db |-> insert_rows([exists |-> TRUE,
                                  columns |-> d1.columns,
                                  types |-> [c \in Range(d1.columns) |-> column_type(d1.dtype[c])],
                                  rows |-> <<>>],
                                 d1)]

-----------------------------------------------------------------------------
(* SQLite's order of values and its aggregates *)

\* the characters of the model in the order of their codes
Alphabet ==
    <<"\t", "\n", " ", "$", "'", ",", "-", "/",
      "0", "1", "2", "3", "4", "5", "6", "7", "8", "9">> \o UpperLetters \o LowerLetters

Ord(c) == CHOOSE i \in 1..Len(Alphabet) : Alphabet[i] = c

\* the BINARY collation: a text is below another when it is a proper prefix
\* of it or has the smaller character at the first difference
TextLess(a, b) ==
    \E i \in 1..(Len(a) + 1) :
        /\ i <= Len(b)
        /\ \A j \in 1..(i - 1) : a[j] = b[j]
        /\ i = Len(a) + 1 \/ Ord(a[i]) < Ord(b[i])

NumLess(a, b) == a.n * b.d < b.n * a.d

\* NULL sorts first, then numbers, then texts
StorageClass(v) == IF v.k = "null" THEN 0 ELSE IF v.k = "str" THEN 2 ELSE 1

ValueLess(a, b) ==
    \/ StorageClass(a) < StorageClass(b)
    \/ StorageClass(a) = 1 /\ StorageClass(b) = 1 /\ NumLess(a, b)
    \/ StorageClass(a) = 2 /\ StorageClass(b) = 2 /\ TextLess(a.s, b.s)

\* the order of group keys: by the first term, then the next
KeyLess(a, b) ==
    \E i \in 1..Len(a) :
        /\ \A j \in 1..(i - 1) : a[j] = b[j]
        /\ ValueLess(a[i], b[i])

\* the key of a row under GROUP BY cols
GroupKey(row, cols) == [i \in 1..Len(cols) |-> row[cols[i]]]

RECURSIVE SortKeys(_)
SortKeys(S) ==
    IF S = {} THEN <<>>
    ELSE LET least == CHOOSE k \in S : \A j \in S \ {k} : KeyLess(k, j)
         IN  <<least>> \o SortKeys(S \ {least})

\* GROUP BY cols with no ORDER BY: SQLite sorts the rows by the grouping
\* terms, so the groups come out in ascending key order
GroupKeys(rows, cols) == SortKeys({GroupKey(rows[i], cols) : i \in 1..Len(rows)})

GroupRows(rows, cols, key) == SelectSeq(rows, LAMBDA r : GroupKey(r, cols) = key)

\* the values of col in rows that are not NULL
NonNull(rows, col) ==
    LET kept == SelectSeq(rows, LAMBDA r : r[col] # NULL)
    IN  [i \in 1..Len(kept) |-> kept[i][col]]

\* MAX(col): NULL when every value is NULL
RECURSIVE MaxOf(_)
MaxOf(vals) ==
    IF Len(vals) = 1 THEN vals[1]
    ELSE LET rest == MaxOf(Tail(vals))
         IN  IF ValueLess(rest, vals[1]) THEN vals[1] ELSE rest

sql_max(rows, col) ==
    LET vals == NonNull(rows, col) IN IF vals = <<>> THEN NULL ELSE MaxOf(vals)

\* AVG(col): the sum of the values that are not NULL over their count, a
\* float; NULL when every value is NULL
RECURSIVE SumOf(_)
SumOf(vals) ==
    IF vals = <<>> THEN FloatV(0, 1)
    ELSE LET rest == SumOf(Tail(vals))
         IN  FloatV(vals[1].n * rest.d + rest.n * vals[1].d, vals[1].d * rest.d)

sql_avg(rows, col) ==
    LET vals == NonNull(rows, col)
        total == SumOf(vals)
    IN  IF vals = <<>> THEN NULL ELSE FloatV(total.n, total.d * Len(vals))

\* COUNT(*)
sql_count(rows) == IntV(Len(rows))

-----------------------------------------------------------------------------
(* run_sql_queries, lines 88-101 *)

\* LIMIT 5
Limit == 5

limit(seq) == SubSeq(seq, 1, IF Len(seq) < Limit THEN Len(seq) ELSE Limit)

\* line 92: SELECT location, seniority_level, MAX(clean_salary) FROM jobs
\*          GROUP BY location, seniority_level LIMIT 5
query_max_salary(store) ==
    LET cols == <<"location", "seniority_level">>
        keys == GroupKeys(store.rows, cols)
    IN  limit([i \in 1..Len(keys) |->
                 <<keys[i][1], keys[i][2],
                   sql_max(GroupRows(store.rows, cols, keys[i]), "clean_salary")>>])

\* line 96: SELECT seniority_level, AVG(clean_salary) FROM jobs GROUP BY seniority_level
query_avg_salary(store) ==
    LET cols == <<"seniority_level">>
        keys == GroupKeys(store.rows, cols)
    IN  [i \in 1..Len(keys) |->
           <<keys[i][1], sql_avg(GroupRows(store.rows, cols, keys[i]), "clean_salary")>>]

\* line 100: SELECT location, COUNT(*) FROM jobs GROUP BY location LIMIT 5
query_count_location(store) ==
    LET cols == <<"location">>
        keys == GroupKeys(store.rows, cols)
    IN  limit([i \in 1..Len(keys) |->
                 <<keys[i][1], sql_count(GroupRows(store.rows, cols, keys[i]))>>])

\* the three blocks of the report: a header and the result rows, each row
\* written as its tuple of fields
report(store) ==
    << [header |-> "top-5 salaries by location and seniority", rows |-> query_max_salary(store)],
       [header |-> "average salary by level", rows |-> query_avg_salary(store)],
       [header |-> "number of postings by location", rows |-> query_count_location(store)] >>

\* the file is opened with mode "a": the blocks follow what it held
append_artifact(artifact, blocks) == [exists |-> TRUE, blocks |-> artifact.blocks \o blocks]

\* open(out_file, "w"): the file holds the new blocks only
write_artifact(artifact, blocks) == [exists |-> TRUE, blocks |-> blocks]

-----------------------------------------------------------------------------
(* split_table_by_column_sql, lines 227-233 *)

\* SELECT DISTINCT column FROM jobs: each value once, in the order of its
\* first row
RECURSIVE Distinct(_, _)
Distinct(vals, seen) ==
    IF vals = <<>> THEN <<>>
    ELSE IF vals[1] \in seen THEN Distinct(Tail(vals), seen)
         ELSE <<vals[1]>> \o Distinct(Tail(vals), seen \cup {vals[1]})

distinct_values(store, column) ==
    Distinct([i \in 1..Len(store.rows) |-> store.rows[i][column]], {})

\* row[0] as Python holds it: NULL is None
py_value(v) == IF v = NULL THEN None ELSE v

\* what '{val}' compares the column with: the text of a text, the text
\* "None" of None, and for a number the number itself (its text in the
\* literal is turned back into the number by the column's affinity)
literal(val) == IF val = None THEN StrV(<<"N", "o", "n", "e">>) ELSE val

\* a text with a quote character ends the literal early: a syntax error
breaks_literal(val) == val.k = "str" /\ \E i \in 1..Len(val.s) : val.s[i] = "'"

\* WHERE column = literal: NULL equals nothing
where_equals(rows, column, lit) ==
    SelectSeq(rows, LAMBDA r : r[column] # NULL /\ r[column] = lit)

\* the result of split_table_by_column_sql(conn, column): the exception, or
\* the mapping, one entry per key in insertion order
split_table_by_column_sql(store, column) ==
    LET values == distinct_values(store, column)
        keys == [i \in 1..Len(values) |-> py_value(values[i])]
    IN  IF \E i \in 1..Len(keys) : breaks_literal(keys[i])
        THEN [err |-> Error("OperationalError", "syntax error in the filter", <<>>),
              tables |-> <<>>]
        ELSE [err |-> NoError,
              tables |-> [i \in 1..Len(keys) |->
                            [key |-> keys[i],
                             rows |-> where_equals(store.rows, column, literal(keys[i]))]]]

-----------------------------------------------------------------------------
(* Spec: the pipeline load_data -> preprocess_data -> create_database ->    *)
(* run_sql_queries on one file and one store, run up to MaxRuns times, and  *)
(* split_table_by_column_sql on the relation it leaves                      *)

MaxRuns == 2

NoFile == [exists |-> FALSE, columns |-> <<>>, n |-> 0, data |-> <<>>]
NoArtifact == [exists |-> FALSE, blocks |-> <<>>]

ColumnNames == <<"salary", "seniority_level", "location", "rating", "company">>

\* the cells a column of the file may hold
SalaryCells == {NaN, StrV(<<"4", ",", "0", "-", "5">>), StrV(<<"t", "b", "d">>)}
SeniorityCells == {NaN, StrV(<<" ", "S", "r", " ">>)}
LocationCells == {NaN, StrV(<<"A">>), StrV(<<"B">>)}

\* the columns of n cells a file may hold under each name: texts with missing
\* cells, or numbers
ColumnChoices(name, n) ==
    CASE name = "salary" ->
           [1..n -> SalaryCells] \cup {[i \in 1..n |-> IntV(40 + i)]}
      [] name = "seniority_level" ->
           [1..n -> SeniorityCells] \cup {[i \in 1..n |-> IntV(i)]}
      [] name = "location" ->
           [1..n -> LocationCells]
      [] name = "rating" ->
           { [i \in 1..n |-> IntV(i)],
             [i \in 1..n |-> IF i = n THEN NaN ELSE IntV(i)],
             [i \in 1..n |-> IF i = 1 THEN FloatV(5, 2) ELSE IntV(i)] }

PipelineNames == SubSeq(ColumnNames, 1, 4)

\* the columns under name c when it is among the present ones
Choices(c, present, n) == IF c \in present THEN ColumnChoices(c, n) ELSE {<<>>}

\* the file of n rows whose present columns hold s, l, r and g
MakeFile(n, present, s, l, r, g) ==
    [exists |-> TRUE,
     columns |-> SelectSeq(PipelineNames, LAMBDA c : c \in present),
     n |-> n,
     data |-> [c \in present |->
                 CASE c = "salary" -> s [] c = "seniority_level" -> l
                   [] c = "location" -> r [] c = "rating" -> g]]

\* file is one of the files: up to MaxRows rows, any of the four columns present
FileIsChosen ==
    \E n \in 0..MaxRows, present \in SUBSET Range(PipelineNames) :
        \E s \in Choices("salary", present, n),
           l \in Choices("seniority_level", present, n),
           r \in Choices("location", present, n),
           g \in Choices("rating", present, n) :
            file = MakeFile(n, present, s, l, r, g)

\* a jobs relation an earlier program left in the store
OldJobs ==
    [exists |-> TRUE,
     columns |-> <<"title">>,
     types |-> [c \in {"title"} |-> "TEXT"],
     rows |-> << [c \in {"title"} |-> StrV(<<"o", "l", "d">>)] >>]

Init ==
    /\ file = NoFile \/ FileIsChosen
    /\ db \in {NoTable, OldJobs}
    /\ df = NoFrame
    /\ out = NoArtifact
    /\ err = NoError
    /\ tables = <<>>
    /\ runs = <<>>
    /\ arg = None
    /\ ret = None
    /\ pc = "load"

\* load_data, lines 11-17
LoadData ==
    /\ pc = "load"
    /\ IF ~file.exists
       THEN /\ err' = Error("FileNotFoundError", "file not found", <<>>)
            /\ pc' = "failed"
            /\ df' = df
       ELSE IF file.n = 0 \/ file.columns = <<>>
       THEN /\ err' = Error("ValueError", "file is empty", <<>>)
            /\ pc' = "failed"
            /\ df' = df
       ELSE /\ df' = read_csv(file)
            /\ pc' = "preprocess"
            /\ err' = err
    /\ UNCHANGED <<file, db, out, tables, runs, arg, ret>>

\* preprocess_data, lines 34-53
PreprocessData ==
    /\ pc = "preprocess"
    /\ LET r == preprocess_data(df)
       IN  /\ err' = r.err
           /\ df' = r.df
           /\ pc' = IF r.err = NoError THEN "create" ELSE "failed"
    /\ UNCHANGED <<file, db, out, tables, runs, arg, ret>>

\* create_database, lines 58-83
CreateDatabase ==
    /\ pc = "create"
    /\ LET r == create_database(db, df)
       IN  /\ err' = r.err
           /\ db' = r.db
           /\ pc' = IF r.err = NoError THEN "query" ELSE "failed"
    /\ UNCHANGED <<file, df, out, tables, runs, arg, ret>>

\* run_sql_queries, lines 88-101; the run is over, and what it left is noted
RunSqlQueries ==
    /\ pc = "query"
    /\ out' = write_artifact(out, report(db))
    /\ runs' = Append(runs, [n_rows |-> Len(db.rows),
                             n_columns |-> Len(db.columns),
                             artifact |-> out'])
    /\ pc' = "done"
    /\ UNCHANGED <<file, df, db, err, tables, arg, ret>>

\* the pipeline is run again on the same file, store and output path
RunAgain ==
    /\ pc = "done"
    /\ Len(runs) < MaxRuns
    /\ pc' = "load"
    /\ df' = NoFrame
    /\ UNCHANGED <<file, db, out, err, tables, runs, arg, ret>>

\* split_table_by_column_sql, lines 227-233, on a column of the relation
SplitTable ==
    /\ pc = "done"
    /\ \E column \in Range(db.columns) :
          LET r == split_table_by_column_sql(db, column)
          IN  /\ arg' = column
              /\ err' = r.err
              /\ tables' = r.tables
              /\ pc' = IF r.err = NoError THEN "split" ELSE "failed"
    /\ UNCHANGED <<file, df, db, out, runs, ret>>

Next ==
    \/ LoadData
    \/ PreprocessData
    \/ CreateDatabase
    \/ RunSqlQueries
    \/ RunAgain
    \/ SplitTable

Spec == Init /\ [][Next]_vars

-----------------------------------------------------------------------------
(* The state the pipeline does not use while a single function is applied *)

PipelineIdle ==
    /\ file = NoFile
    /\ df = NoFrame
    /\ db = NoTable
    /\ out = NoArtifact
    /\ err = NoError
    /\ tables = <<>>
    /\ runs = <<>>

-----------------------------------------------------------------------------
(* SpecSalary: clean_salary applied to one value *)

SalaryChars == {"4", "5", "0", ",", "-", "$"}

RECURSIVE Texts(_, _)
Texts(chars, n) ==
    IF n = 0 THEN {<<>>}
    ELSE LET shorter == Texts(chars, n - 1)
         IN  shorter \cup {Append(t, c) : t \in {u \in shorter : Len(u) = n - 1}, c \in chars}

SalaryExamples ==
    { <<"$", "4", "0", ",", "0", "0", "0">>,
      <<"4", "0", "0", "0", "0", "-", "5", "0", "0", "0", "0">>,
      <<"n", "/", "a">>,
      <<"1", ",", ",", "2", " ", ",", "7">> }

SalaryValues ==
    {StrV(t) : t \in Texts(SalaryChars, MaxLen) \cup SalaryExamples}
        \cup {NaN, None, IntV(40000), FloatV(81, 2)}

InitSalary ==
    /\ PipelineIdle
    /\ pc = "call"
    /\ arg \in SalaryValues
    /\ ret = None

CallCleanSalary ==
    /\ pc = "call"
    /\ ret' = clean_salary(arg)
    /\ pc' = "return"
    /\ UNCHANGED <<file, df, db, out, err, tables, runs, arg>>

NextSalary == CallCleanSalary

SpecSalary == InitSalary /\ [][NextSalary]_vars

\* What the claim says of a text t, stated without the scan: a run starts at
\* a digit that no earlier digit reaches through digits and commas, and goes
\* on to the last digit or comma that follows without a gap.
IsDigitOrComma(c) == c \in Digits \/ c = ","

RunStarts(t) ==
    { i \in 1..Len(t) :
        /\ t[i] \in Digits
        /\ \A b \in 1..(i - 1) :
              (\A m \in b..(i - 1) : IsDigitOrComma(t[m])) => t[b] \notin Digits }

RunLast(t, i) ==
    CHOOSE j \in i..Len(t) :
        /\ \A m \in i..j : IsDigitOrComma(t[m])
        /\ j = Len(t) \/ ~IsDigitOrComma(t[j + 1])

RECURSIVE Pow10(_)
Pow10(e) == IF e = 0 THEN 1 ELSE 10 * Pow10(e - 1)

RECURSIVE SetSum(_, _)
SetSum(S, f) ==
    IF S = {} THEN 0
    ELSE LET x == CHOOSE y \in S : TRUE IN f[x] + SetSum(S \ {x}, f)

\* the integer a run spells once its commas are removed
RunValue(t, i) ==
    LET j == RunLast(t, i)
        digitsAt == {m \in i..j : t[m] \in Digits}
        place(m) == Cardinality({q \in digitsAt : q > m})
        term == [m \in digitsAt |-> DigitVal(t[m]) * Pow10(place(m))]
    IN  SetSum(digitsAt, term)

MeanOfRuns(t) ==
    LET starts == RunStarts(t)
        value == [i \in starts |-> RunValue(t, i)]
    IN  FloatV(SetSum(starts, value), Cardinality(starts))

\* C1: clean_salary(s) is absent when s is missing or is not a text, absent
\* when s holds no digit, and otherwise is the arithmetic mean of the integers
\* spelled by the maximal runs "a digit, then digits or commas" of s, commas
\* removed; "$40,000" gives 40000, "40000-50000" gives 45000, "n/a" absent.
C1_CleanSalaryIsMeanOfRuns ==
    pc = "return" =>
        /\ (isna(arg) \/ arg.k # "str") => ret = None
        /\ (arg.k = "str" /\ \A i \in 1..Len(arg.s) : arg.s[i] \notin Digits) => ret = None
        /\ (arg.k = "str" /\ \E i \in 1..Len(arg.s) : arg.s[i] \in Digits) =>
               ret = MeanOfRuns(arg.s)
        /\ arg = StrV(<<"$", "4", "0", ",", "0", "0", "0">>) => ret = FloatV(40000, 1)
        /\ arg = StrV(<<"4", "0", "0", "0", "0", "-", "5", "0", "0", "0", "0">>) =>
               ret = FloatV(45000, 1)
        /\ arg = StrV(<<"n", "/", "a">>) => ret = None

C1_Witness ==
    /\ pc = "return"
    /\ arg = StrV(<<"1", ",", ",", "2", " ", ",", "7">>)
    /\ ret = FloatV(19, 2)

-----------------------------------------------------------------------------
(* SpecPrune: the pruning step of preprocess_data applied to one table *)

Present == StrV(<<"x">>)

\* a column of n cells, the first k of them missing
SparseColumn(n, k) == [i \in 1..n |-> IF i <= k THEN NaN ELSE Present]

\* the file of n rows and the first w columns, column i missing in its first
\* ks[i] rows
PruneFile(n, w, ks) ==
    [exists |-> TRUE,
     columns |-> SubSeq(ColumnNames, 1, w),
     n |-> n,
     data |-> [c \in Range(SubSeq(ColumnNames, 1, w)) |->
                 SparseColumn(n, ks[CHOOSE i \in 1..w : ColumnNames[i] = c])]]

InitPrune ==
    /\ \E n \in 1..MaxPruneRows, w \in 1..MaxPruneCols :
          \E ks \in [1..w -> 0..n] : file = PruneFile(n, w, ks)
    /\ df = read_csv(file)
    /\ db = NoTable
    /\ out = NoArtifact
    /\ err = NoError
    /\ tables = <<>>
    /\ runs = <<>>
    /\ arg = None
    /\ ret = None
    /\ pc = "prune"

DropSparseColumns ==
    /\ pc = "prune"
    /\ df' = drop_sparse_columns(df)
    /\ pc' = "pruned"
    /\ UNCHANGED <<file, db, out, err, tables, runs, arg, ret>>

NextPrune == DropSparseColumns

SpecPrune == InitPrune /\ [][NextPrune]_vars

\* the cells of column c of the file that are missing
MissingRows(f, c) == {i \in 1..f.n : f.data[c][i] = NaN}

\* the place of column c in the sequence cols
Place(cols, c) == CHOOSE i \in 1..Len(cols) : cols[i] = c

\* C2: on a table with at least one row the pruning step removes exactly the
\* columns whose missing fraction is strictly above 0.90 (a column at exactly
\* 0.90 stays), and the surviving columns keep their relative order.
C2_PruneExactlyAboveThreshold ==
    pc = "pruned" =>
        /\ \A c \in Range(file.columns) :
              c \in Range(df.columns) <=> 10 * Cardinality(MissingRows(file, c)) <= 9 * file.n
        /\ Range(df.columns) \subseteq Range(file.columns)
        /\ Len(df.columns) = Cardinality(Range(df.columns))
        /\ \A a, b \in Range(df.columns) :
              Place(df.columns, a) < Place(df.columns, b)
                  <=> Place(file.columns, a) < Place(file.columns, b)
        /\ \A c \in Range(df.columns) : df.data[c] = read_csv(file).data[c]

\* ten rows, the middle column missing in nine of them (exactly 0.90, kept),
\* the first in all ten (removed)
C2_Witness ==
    /\ pc = "pruned"
    /\ file.n = 10
    /\ Len(file.columns) = 3
    /\ Cardinality(MissingRows(file, "salary")) = 10
    /\ Cardinality(MissingRows(file, "seniority_level")) = 9
    /\ df.columns = <<"seniority_level", "location">>

-----------------------------------------------------------------------------
(* Properties of the pipeline, Spec *)

\* load_data returned a table: the file exists and has rows
Loaded == file.exists /\ file.n > 0 /\ file.columns # <<>>

\* preprocess_data has been called in this run and has ended
Preprocessed == Loaded /\ pc \notin {"load", "preprocess"}

\* the required columns that are not in the file or are missing there in
\* more than 90% of the rows
AbsentRequired ==
    { c \in Range(required_columns) :
        \/ c \notin Range(file.columns)
        \/ 10 * Cardinality(MissingRows(file, c)) > 9 * file.n }

\* C6: preprocess_data checks the required columns after pruning: if salary,
\* seniority_level or location is not in the pruned table (never there, or
\* removed as more than 90% missing) it fails with the missing-columns error
\* (a KeyError) listing every absent required column and no present one,
\* before any clean_salary or seniority value is computed; if all three are
\* there the check passes.
C6_RequiredColumnsCheckedAfterPruning ==
    Preprocessed =>
        /\ err.type = "KeyError" <=> AbsentRequired # {}
        /\ err.type = "KeyError" =>
              /\ Range(err.columns) = AbsentRequired
              /\ Len(err.columns) = Cardinality(AbsentRequired)
              /\ pc = "failed"
              /\ df = read_csv(file)

\* salary was in the file and pruned, location never was
C6_Witness ==
    /\ pc = "failed"
    /\ err.type = "KeyError"
    /\ err.columns = <<"salary", "location">>
    /\ "salary" \in Range(file.columns)
    /\ "location" \notin Range(file.columns)
    /\ file.n = 2

\* a salary cell from which no number comes: missing, not a text, or a text
\* with no digit
NoNumber(v) == v.k # "str" \/ \A i \in 1..Len(v.s) : v.s[i] \notin Digits

\* the clean_salary column's cell for the salary cell v
CleanCell(v) == IF NoNumber(v) THEN NaN ELSE MeanOfRuns(v.s)

\* the table preprocess_data returned carries each row's clean salary, one of
\* them present
ReturnsCleanedTable ==
    /\ pc = "create"
    /\ err = NoError
    /\ "clean_salary" \in Range(df.columns)
    /\ \E i \in 1..df.n : ~isna(df.data["clean_salary"][i])
    /\ \A i \in 1..df.n : df.data["clean_salary"][i] = CleanCell(file.data["salary"][i])

AllSalariesMissingError == err.type = "ValueError" /\ err.msg = "all salaries empty after cleaning"

\* C7 as stated: with the three required columns left after pruning,
\* preprocess_data fails with the all-salaries-missing error if and only if
\* clean_salary is absent for every row, and otherwise returns a table with a
\* present clean_salary in some row and each row's clean_salary that of its
\* salary.
C7_Original ==
    (Loaded /\ pc \in {"create", "failed"} /\ AbsentRequired = {}) =>
        /\ AllSalariesMissingError <=> \A i \in 1..file.n : NoNumber(file.data["salary"][i])
        /\ ~AllSalariesMissingError => ReturnsCleanedTable

\* C7 amended: ... and otherwise it either fails with AttributeError, which
\* it does exactly when seniority_level is not a text column, or returns that
\* table.
C7_AllSalariesMissingIffNoNumber ==
    (Loaded /\ pc \in {"create", "failed"} /\ AbsentRequired = {}) =>
        /\ AllSalariesMissingError <=> \A i \in 1..file.n : NoNumber(file.data["salary"][i])
        /\ ~AllSalariesMissingError =>
              IF \A i \in 1..file.n : file.data["seniority_level"][i].k # "str"
              THEN pc = "failed" /\ err.type = "AttributeError"
              ELSE ReturnsCleanedTable

C7_Witness ==
    /\ pc = "failed"
    /\ AllSalariesMissingError
    /\ file.n = 2
    /\ file.data["salary"] = <<StrV(<<"t", "b", "d">>), NaN>>

\* C10: in the pipeline create_database never gets a table whose salary
\* column is all missing: a file whose salary cells are all missing is
\* rejected by preprocess_data with the missing-columns error, never with the
\* all-salaries-missing error.
C10_AllMissingSalaryNeverReachesCreate ==
    /\ pc = "create" =>
          /\ "salary" \in Range(df.columns)
          /\ \E i \in 1..df.n : df.data["salary"][i].k \notin {"nan", "none"}
    /\ (Preprocessed /\ "salary" \in Range(file.columns)
          /\ \A i \in 1..file.n : file.data["salary"][i] = NaN) =>
          /\ pc = "failed"
          /\ err.type = "KeyError"
          /\ "salary" \in Range(err.columns)

C10_Witness ==
    /\ pc = "failed"
    /\ err.type = "KeyError"
    /\ err.columns = <<"salary">>
    /\ file.n = 2
    /\ "salary" \in Range(file.columns)
    /\ file.data["salary"] = <<NaN, NaN>>

\* the value of the store for a cell of the table
Stored(v) == IF v = NaN THEN NULL ELSE v

\* C8: after create_database succeeds on a cleaned table of n rows the jobs
\* relation has exactly n rows, row i holding the values of row i of the
\* table, and no row of a relation that was in the store before.
C8_RowsStoredInOrder ==
    pc = "query" =>
        /\ db.exists
        /\ db.columns = df.columns
        /\ Len(db.rows) = df.n
        /\ \A i \in 1..df.n :
              /\ DOMAIN db.rows[i] = Range(df.columns)
              /\ \A c \in Range(df.columns) : db.rows[i][c] = Stored(df.data[c][i])
        /\ \A i \in 1..Len(db.rows) : db.rows[i] \notin Range(OldJobs.rows)

\* the second run stores two different rows over those of the first
C8_Witness ==
    /\ pc = "query"
    /\ Len(runs) = 1
    /\ Len(db.rows) = 2
    /\ db.rows[1] # db.rows[2]
    /\ db.rows[1]["clean_salary"] = NULL

\* the cells of column c as the file has them, or as preprocess_data made
\* them when the file has no such column
ColumnCells(c) == IF c \in Range(file.columns) THEN file.data[c] ELSE df.data[c]

PresentCells(c) == {ColumnCells(c)[i] : i \in 1..df.n} \ {NaN}

\* C9 as stated: a column whose every present value is an integer gets the
\* integer type, also when some of its values are missing; one whose every
\* present value is a floating-point number, not all integers, gets the real
\* type; every other column gets the text type; clean_salary is retained.
C9_Original ==
    pc = "query" =>
        /\ "clean_salary" \in Range(db.columns)
        /\ \A c \in Range(db.columns) :
              db.types[c] =
                  IF \A v \in PresentCells(c) : v.k = "int" THEN "INTEGER"
                  ELSE IF \A v \in PresentCells(c) : v.k \in {"int", "float"} THEN "REAL"
                  ELSE "TEXT"

\* C9 amended: a column whose every value is an integer and none is missing
\* gets the integer type; a column of numbers with a missing value or a
\* fraction (pandas holds both as floats) gets the real type, as clean_salary
\* does; every other column, seniority_level too, gets the text type;
\* clean_salary is retained.
C9_TypeFollowsDtype ==
    pc = "query" =>
        /\ "clean_salary" \in Range(db.columns)
        /\ db.types["clean_salary"] = "REAL"
        /\ db.types["seniority_level"] = "TEXT"
        /\ \A c \in Range(db.columns) :
              db.types[c] =
                  IF \A i \in 1..df.n : ColumnCells(c)[i].k = "int" THEN "INTEGER"
                  ELSE IF \A i \in 1..df.n : ColumnCells(c)[i].k \in {"int", "float", "nan"}
                       THEN "REAL"
                  ELSE "TEXT"

\* a column of integers with a missing cell is stored as REAL
C9_Witness ==
    /\ pc = "query"
    /\ "rating" \in Range(file.columns)
    /\ file.data["rating"] = <<IntV(1), NaN>>
    /\ db.types["rating"] = "REAL"
    /\ db.types["salary"] = "TEXT"

\* C5: the pipeline run twice on the same file, store and output path leaves
\* after the second run a relation with the row and column count of the
\* first (no rows appended) and the same artifact (overwritten, not
\* appended).
C5_SecondRunLeavesTheSame ==
    /\ \A i \in 1..Len(runs) :
          /\ runs[i].n_rows = runs[1].n_rows
          /\ runs[i].n_rows = file.n
          /\ runs[i].n_columns = runs[1].n_columns
          /\ runs[i].artifact = runs[1].artifact
          /\ Len(runs[i].artifact.blocks) = 3
    /\ (Len(runs) >= 1 /\ pc = "failed") => err.msg = "syntax error in the filter"
    /\ (Len(runs) >= 1 /\ pc \in {"done", "split"}) => out = runs[1].artifact

C5_Witness ==
    /\ pc = "done"
    /\ Len(runs) = 2
    /\ runs[2].n_rows = 2
    /\ Len(runs[2].artifact.blocks[2].rows) = 2

\* the rows of the relation whose value in column c is that of key k
RowsWithKey(c, k) == SelectSeq(db.rows, LAMBDA r : r[c] = (IF k = None THEN NULL ELSE k))

RECURSIVE TotalRows(_)
TotalRows(ts) == IF ts = <<>> THEN 0 ELSE Len(ts[1].rows) + TotalRows(Tail(ts))

\* C4: for a column with k distinct values, a missing value counted as one,
\* split_table_by_column_sql returns exactly k sub-tables, each holding
\* exactly the rows whose value in the column is its key, and their row
\* counts sum to the row count of the relation.
C4_Original ==
    pc = "split" =>
        /\ Len(tables) = Cardinality({db.rows[i][arg] : i \in 1..Len(db.rows)})
        /\ \A i \in 1..Len(tables) : tables[i].rows = RowsWithKey(arg, tables[i].key)
        /\ TotalRows(tables) = Len(db.rows)

-----------------------------------------------------------------------------
(* SpecQuery: run_sql_queries on the relation the pipeline stores for a     *)
(* file of up to MaxQueryRows postings in up to Limit + 1 locations         *)

QueryLocations == SubSeq(UpperLetters, 1, Limit + 1)

\* the locations come in an order that rises or falls through the alphabet
Monotone(locs) ==
    \/ \A i \in 1..(Len(locs) - 1) : locs[i] <= locs[i + 1]
    \/ \A i \in 1..(Len(locs) - 1) : locs[i] >= locs[i + 1]

\* the salary texts "$1" and "$2"
QuerySalary(p) == StrV(<<"$", IF p = 1 THEN "1" ELSE "2">>)

QueryFile(n, locs, pay) ==
    [exists |-> TRUE,
     columns |-> required_columns,
     n |-> n,
     data |-> [c \in Range(required_columns) |->
                 CASE c = "salary" -> [i \in 1..n |-> QuerySalary(pay[i])]
                   [] c = "seniority_level" -> [i \in 1..n |-> StrV(<<"j", "r">>)]
                   [] c = "location" -> [i \in 1..n |-> StrV(<<QueryLocations[locs[i]]>>)]]]

InitQuery ==
    /\ \E n \in 1..MaxQueryRows :
          \E locs \in {l \in [1..n -> 1..(Limit + 1)] : Monotone(l)}, pay \in [1..n -> 1..2] :
              /\ file = QueryFile(n, locs, pay)
              /\ df = preprocess_data(read_csv(file)).df
              /\ db = create_database(NoTable, df).db
    /\ out = NoArtifact
    /\ err = NoError
    /\ tables = <<>>
    /\ runs = <<>>
    /\ arg = None
    /\ ret = None
    /\ pc = "query"

NextQuery == RunSqlQueries

SpecQuery == InitQuery /\ [][NextQuery]_vars

\* B holds Limit members of All, or all of them, and none left out scores
\* above one that is in
IsTop(B, All, score) ==
    /\ B \subseteq All
    /\ Cardinality(B) = (IF Cardinality(All) < Limit THEN Cardinality(All) ELSE Limit)
    /\ \A b \in B : \A g \in All \ B : ~ValueLess(score[b], score[g])

LocationLevelGroups == {<<db.rows[i]["location"], db.rows[i]["seniority_level"]>> : i \in 1..Len(db.rows)}

\* the largest clean_salary of the group, NULL when it has none
GroupMaxSalary(g) ==
    LET vals == {db.rows[i]["clean_salary"] :
                    i \in {j \in 1..Len(db.rows) :
                              <<db.rows[j]["location"], db.rows[j]["seniority_level"]>> = g}} \ {NULL}
    IN  IF vals = {} THEN NULL ELSE CHOOSE v \in vals : \A w \in vals : ~ValueLess(v, w)

Locations == {db.rows[i]["location"] : i \in 1..Len(db.rows)}

LocationCount(l) == IntV(Cardinality({i \in 1..Len(db.rows) : db.rows[i]["location"] = l}))

\* C3: in the report the first block holds the five (location,
\* seniority_level) groups with the largest MAX(clean_salary) among all
\* groups, and the third block the five locations with the largest COUNT(*)
\* among all locations, also when there are more than five groups.
C3_Original ==
    pc = "done" =>
        LET first == out.blocks[1].rows
            third == out.blocks[3].rows
        IN  /\ IsTop({<<first[i][1], first[i][2]>> : i \in 1..Len(first)},
                     LocationLevelGroups,
                     [g \in LocationLevelGroups |-> GroupMaxSalary(g)])
            /\ \A i \in 1..Len(first) : first[i][3] = GroupMaxSalary(<<first[i][1], first[i][2]>>)
            /\ IsTop({third[i][1] : i \in 1..Len(third)},
                     Locations,
                     [l \in Locations |-> LocationCount(l)])
            /\ \A i \in 1..Len(third) : third[i][2] = LocationCount(third[i][1])

=============================================================================
